---- MODULE Spec2Model ----
(***************************************************************************)
(* Model of the CanProbe host-side driver (crate adaptor-core):            *)
(* device location, AdaptorHandle::new, the settings, run, reset and       *)
(* get_error control transfers, the bulk frame transport, Drop, and the    *)
(* command header write of the crate's prototype (lib.rs).                 *)
(*                                                                         *)
(* Every public operation of AdaptorHandle is one action.  The USB         *)
(* platform (rusb) is the environment: the result of each platform call    *)
(* is an input of the action, and the calls an operation issued are kept   *)
(* in `trace`.                                                             *)
(***************************************************************************)
EXTENDS Integers, Sequences, FiniteSets, TLC

VARIABLES
    bus,        \* the devices the platform enumerates, in enumeration order
    claimed,    \* the process holding the claim on interface 0 of the adaptor (0: nobody)
    handle,     \* per process: the AdaptorHandle it owns (live = FALSE: none)
    call,       \* the last completed operation: its inputs, locals and result
    trace       \* the platform calls the last operation issued, in order

vars == <<bus, claimed, handle, call, trace>>

----------------------------------------------------------------------------
(* Bounds *)

MaxDevices == 3

----------------------------------------------------------------------------
(* Program constants *)

VENDOR_ID == 105

V1_PID == 105

V1_IN_EP == 1

V1_OUT_EP == 129

V1_SWO_EP == 130

BUFFER_SIZE == 256

CMD_PACKET_SIZE == 16

OUT_ENDPOINT == 129

REQ_NOP == 0

REQ_Settings == 1

REQ_Reset == 2

REQ_Run == 3

REQ_LedEnable == 4

REQ_GetError == 5

\* AdaptorInfo::VID
VID == VENDOR_ID

\* lazy_static VERSIONS: product id -> AdaptorInfo
VERSIONS ==
    [p \in {V1_PID} |->
        [version |-> "V1", pid |-> V1_PID, in_ep |-> V1_IN_EP,
         out_ep |-> V1_OUT_EP, swo_ep |-> V1_SWO_EP]]

\* AdaptorSettings::default()
DefaultSettings == [rx_mask |-> 0, leds |-> TRUE, can_id |-> 0, can_config |-> 0]

----------------------------------------------------------------------------
(* Input domains *)

Procs == {1, 2}

\* What device_descriptor() yields for an enumerated device.
Adaptor == [readable |-> TRUE, vid |-> VENDOR_ID, pid |-> V1_PID]

Devices ==
    { Adaptor,
      [readable |-> TRUE,  vid |-> VENDOR_ID + 1, pid |-> V1_PID],
      [readable |-> TRUE,  vid |-> VENDOR_ID, pid |-> V1_PID + 1],
      [readable |-> FALSE, vid |-> VENDOR_ID, pid |-> V1_PID] }

BusLists == UNION { [1..n -> Devices] : n \in 0..MaxDevices }

\* A configuration descriptor: a sequence of interfaces, each a sequence of
\* alternate-setting descriptors, each the set of its endpoint addresses.
NoConfig == <<>>

Configs ==
    { <<>>, << <<>> >>, << <<{}>>, <<{V1_IN_EP, V1_OUT_EP}>> >>,
      << <<{V1_IN_EP}, {V1_OUT_EP}>> >> }
    \cup { << <<E>> >> : E \in SUBSET {V1_IN_EP, V1_OUT_EP, V1_SWO_EP} }

SettingsSet ==
    { [rx_mask |-> w[1], leds |-> l, can_id |-> w[2], can_config |-> w[3]] :
        w \in {<<0, 0, 0>>, <<255, 291, 1>>}, l \in BOOLEAN }

\* The closures handed to modify_settings: replacement by a value (what
\* set_settings passes) and a transform of the current value.
Closures ==
    { [s \in SettingsSet |-> t] : t \in SettingsSet }
    \cup { [s \in SettingsSet |-> [s EXCEPT !.leds = ~@]] }

\* The platform's answers to the calls of new, in call order.  failAt names
\* the call that fails.  An answer new never gets to read is not enumerated:
\* the configuration descriptor when an earlier call fails, and a failing
\* control transfer for a configuration that new rejects before issuing it
\* (that run is the one with failAt = "none").
UsableConfigs ==
    { c \in Configs :
        Len(c) > 0 /\ Len(c[1]) > 0 /\ {V1_IN_EP, V1_OUT_EP} \subseteq c[1][1] }

NewEnv ==
    { [failAt |-> f, cfg |-> NoConfig] : f \in {"open", "config", "descriptor", "claim"} }
    \cup { [failAt |-> "none", cfg |-> c] : c \in Configs }
    \cup { [failAt |-> "control", cfg |-> c] : c \in UsableConfigs }

TestData == <<1, 2, 3, 0, 0, 0, 0, 0>>

\* Device error codes
ErrorBytes == {0, 1, 127, 255}

\* The commands handed to the header write: empty, short, and of full width.
Cmds == { <<>>, <<7>>, <<1, 2, 3>>, [i \in 1..CMD_PACKET_SIZE |-> i] }

TestFrames ==
    { [id |-> i, dlc |-> d, data |-> TestData, is_rtr |-> FALSE, is_err |-> FALSE,
       is_ext |-> x] : i \in {0, 291}, d \in {3, 9}, x \in BOOLEAN }

\* Valid frames for the codec: identifiers at the varint length boundaries
\* of a u32 up to the largest integer TLC represents, every dlc of a valid
\* frame, every flag combination.
CodecFrames ==
    { [id |-> i, dlc |-> d, data |-> t, is_rtr |-> r, is_err |-> e, is_ext |-> x] :
        i \in {0, 127, 128, 16384, 268435455, 2147483647},
        d \in 0..8,
        t \in {TestData, <<255, 128, 127, 1, 0, 255, 1, 255>>},
        r \in BOOLEAN, e \in BOOLEAN, x \in BOOLEAN }

----------------------------------------------------------------------------
(* postcard wire encoding *)

RECURSIVE Varint(_)
Varint(n) ==
    IF n < 128 THEN <<n>> ELSE <<(n % 128) + 128>> \o Varint(n \div 128)

BoolByte(b) == IF b THEN 1 ELSE 0

\* postcard::to_stdvec(&self.settings): fields in declaration order
SerSettings(s) ==
    Varint(s.rx_mask) \o <<BoolByte(s.leds)>> \o Varint(s.can_id) \o Varint(s.can_config)

SerFrameDataByDlc(f) ==
    Varint(f.id) \o <<f.dlc>> \o SubSeq(f.data, 1, f.dlc)
        \o <<BoolByte(f.is_rtr), BoolByte(f.is_err), BoolByte(f.is_ext)>>

\* postcard::to_stdvec(&frame): fields in declaration order, the array inline
SerFrame(f) ==
    Varint(f.id) \o <<f.dlc>> \o f.data
        \o <<BoolByte(f.is_rtr), BoolByte(f.is_err), BoolByte(f.is_ext)>>

ZeroFrame ==
    [id |-> 0, dlc |-> 0, data |-> <<0, 0, 0, 0, 0, 0, 0, 0>>,
     is_rtr |-> FALSE, is_err |-> FALSE, is_ext |-> FALSE]

DeErr == [ok |-> FALSE, frame |-> ZeroFrame]

\* a u32 varint: at most five bytes, the fifth at most 0x0F
RECURSIVE TakeVarint(_, _, _, _, _)
TakeVarint(b, pos, i, acc, mult) ==
    IF i = 5 \/ pos > Len(b) THEN [ok |-> FALSE, val |-> 0, next |-> pos]
    ELSE LET v    == b[pos]
             acc2 == acc + (v % 128) * mult
         IN  IF v < 128
             THEN IF i = 4 /\ v > 15 THEN [ok |-> FALSE, val |-> 0, next |-> pos]
                  ELSE [ok |-> TRUE, val |-> acc2, next |-> pos + 1]
             ELSE TakeVarint(b, pos + 1, i + 1, acc2, mult * 128)

\* postcard::take_from_bytes::<CANFrame>(bytes)
DeFrame(b) ==
    LET id == TakeVarint(b, 1, 0, 0, 1)
        q  == id.next
    IN  IF ~id.ok THEN DeErr
        ELSE IF q + 11 > Len(b) THEN DeErr
        ELSE IF \E k \in 9..11 : b[q + k] \notin {0, 1} THEN DeErr
        ELSE [ok |-> TRUE,
              frame |-> [id |-> id.val, dlc |-> b[q],
                         data |-> [k \in 1..8 |-> b[q + k]],
                         is_rtr |-> b[q + 9] = 1, is_err |-> b[q + 10] = 1,
                         is_ext |-> b[q + 11] = 1]]

Prefix(s, n) == [i \in 1..n |-> s[i]]

\* What a bulk IN transfer may deliver: an encoded frame, any prefix of one,
\* or one whose last flag byte is not a boolean.
RxInputs ==
    UNION { { Prefix(SerFrame(f), n) : n \in 0..Len(SerFrame(f)) } : f \in TestFrames }
    \cup { [SerFrame(f) EXCEPT ![Len(SerFrame(f))] = 2] : f \in TestFrames }

----------------------------------------------------------------------------
(* Platform calls kept in the trace.  req is the request code of a control *)
(* transfer and the endpoint address of a bulk transfer.                   *)

Xfer(c, dir, req, data, ok) ==
    [call |-> c, dir |-> dir, class |-> "none", recipient |-> "none",
     req |-> req, data |-> data, ok |-> ok]

\* rusb::request_type(direction, request_type, recipient)
RequestType(dir, class, recipient) ==
    [dir |-> dir, class |-> class, recipient |-> recipient]

\* a control transfer: write_control / read_control(req_type, request, 0, 0, data, timeout)
Control(c, reqType, req, data, ok) ==
    [call |-> c, dir |-> reqType.dir, class |-> reqType.class,
     recipient |-> reqType.recipient, req |-> req, data |-> data, ok |-> ok]

Plain(c, ok) == Xfer(c, "none", REQ_NOP, <<>>, ok)

----------------------------------------------------------------------------
(* Device Locator *)

\* the .filter closure
FilterPred(d) ==
    IF d.readable THEN d.vid = VID /\ d.pid \in DOMAIN VERSIONS ELSE FALSE

\* the .find_map closure
FindMapPred(d) ==
    IF d.readable THEN d.vid = VID ELSE FALSE

LocateLast(b) ==
    LET pass == { i \in 1..Len(b) : FilterPred(b[i]) /\ FindMapPred(b[i]) }
    IN  IF pass = {} THEN 0 ELSE CHOOSE i \in pass : \A j \in pass : i >= j

LocateAnyVendor(b) ==
    LET pass == { i \in 1..Len(b) : b[i].readable /\ b[i].pid \in DOMAIN VERSIONS }
    IN  IF pass = {} THEN 0 ELSE CHOOSE i \in pass : \A j \in pass : i <= j

\* .iter().filter(..).find_map(..): the index of the first device passing
\* both closures, 0 when there is none
Locate(b) ==
    LET pass == { i \in 1..Len(b) : FilterPred(b[i]) /\ FindMapPred(b[i]) }
    IN  IF pass = {} THEN 0 ELSE CHOOSE i \in pass : \A j \in pass : i <= j

----------------------------------------------------------------------------
(* Handle life cycle *)

NoHandle == [live |-> FALSE, settings |-> DefaultSettings, running |-> FALSE, pid |-> 0]

DeviceHandleLeaked(c, p, held) == c

\* A rusb::DeviceHandle leaving scope: the interfaces it still holds (held)
\* are released and the device is closed.
DropDeviceHandle(c, p, held) == IF held /\ c = p THEN 0 ELSE c

\* handle.release_interface(0)
ReleaseInterface(c, p) == IF c = p THEN 0 ELSE c

\* impl Drop for AdaptorHandle, then the drop of its field `handle`
DropAdaptorHandle(c, p) == DropDeviceHandle(ReleaseInterface(c, p), p, FALSE)

HasOutEpAnyInterface(cfg, info) ==
    \E i \in 1..Len(cfg) : \E j \in 1..Len(cfg[i]) : info.out_ep \in cfg[i][j]

\* the endpoint loop of new: has_out_ep
HasOutEp(cfg, info) ==
    /\ Len(cfg) > 0
    /\ Len(cfg[1]) > 0
    /\ \E addr \in cfg[1][1] : addr = info.out_ep

HasInEpUnchecked(cfg, info) == TRUE

\* the endpoint loop of new: has_in_ep
HasInEp(cfg, info) ==
    /\ Len(cfg) > 0
    /\ Len(cfg[1]) > 0
    /\ \E addr \in cfg[1][1] : addr # info.out_ep /\ addr = info.in_ep

ClaimOkShared(c, ok) == ok

\* handle.claim_interface(0): refused while the interface is held (c is the
\* holder, 0 when free), or when the platform fails the call
ClaimOk(c, ok) == c = 0 /\ ok

\* `let settings = AdaptorSettings::default();` shadows the parameter
NewSettings(settings) == DefaultSettings

ControlResultIgnored(ok) == "Ok"

\* `self.handle.write_control(..)?; Ok(())`
ControlResult(ok) == IF ok THEN "Ok" ELSE "RusbError"

SettingsXferStale(s, ok) ==
    Control("write_control", RequestType("out", "vendor", "device"),
            REQ_Settings, SerSettings(DefaultSettings), ok)

\* write_settings: the control transfer it issues
SettingsXfer(s, ok) ==
    Control("write_control", RequestType("out", "vendor", "device"),
            REQ_Settings, SerSettings(s), ok)

NewCall(p, settings, cfg, sel, res) ==
    [op |-> "new", proc |-> p, result |-> res, settings |-> settings,
     cfg |-> cfg, sel |-> sel, before |-> handle[p]]

\* AdaptorHandle::new(settings)
New(p, settings, env) ==
    LET sel  == Locate(bus)
        info == VERSIONS[bus[sel].pid]
        cfg  == env.cfg
        failAt == env.failAt
        tOpen  == <<Plain("open", failAt # "open")>>
        tCfg   == tOpen \o <<Plain("active_config_descriptor", failAt # "config")>>
        tDesc  == tCfg \o <<Plain("device_descriptor", failAt # "descriptor")>>
        claimOk == ClaimOk(claimed, failAt # "claim")
        tClaim == tDesc \o <<Plain("claim_interface", claimOk)>>
        temp   == [live |-> TRUE, settings |-> NewSettings(settings),
                   running |-> FALSE, pid |-> info.pid]
        tCtl   == tClaim \o <<SettingsXfer(temp.settings, failAt # "control")>>
        Fail(res, tr, c) ==
            /\ call' = NewCall(p, settings, cfg, sel, res)
            /\ trace' = tr
            /\ claimed' = c
            /\ UNCHANGED <<bus, handle>>
    IN
    IF sel = 0 THEN Fail("NoDeviceError", <<>>, claimed)
    ELSE IF failAt = "open" THEN Fail("RusbError", tOpen, claimed)
    ELSE IF failAt = "config" THEN
        Fail("RusbError", tCfg, DropDeviceHandle(claimed, p, FALSE))
    ELSE IF failAt = "descriptor" THEN
        Fail("RusbError", tDesc, DropDeviceHandle(claimed, p, FALSE))
    ELSE IF ~claimOk THEN
        Fail("RusbError", tClaim, DropDeviceHandle(claimed, p, FALSE))
    ELSE IF ~HasInEp(cfg, info) THEN
        Fail("NoEndpointError", tClaim, DropDeviceHandle(p, p, TRUE))
    ELSE IF ~HasOutEp(cfg, info) THEN
        Fail("NoEndpointError", tClaim, DropDeviceHandle(p, p, TRUE))
    ELSE IF ControlResult(failAt # "control") # "Ok" THEN
        Fail(ControlResult(failAt # "control"),
             tCtl \o <<Plain("release_interface", TRUE)>>,
             DropAdaptorHandle(p, p))
    ELSE
        /\ call' = NewCall(p, settings, cfg, sel, "Ok")
        /\ trace' = tCtl
        /\ claimed' = p
        /\ handle' = [handle EXCEPT ![p] = temp]
        /\ UNCHANGED bus

\* dropping a live AdaptorHandle
DropHandle(p) ==
    /\ handle[p].live
    /\ claimed' = DropAdaptorHandle(claimed, p)
    /\ handle' = [handle EXCEPT ![p] = NoHandle]
    /\ trace' = <<Plain("release_interface", TRUE)>>
    /\ call' = [op |-> "drop", proc |-> p, result |-> "Ok", before |-> handle[p]]
    /\ UNCHANGED bus

----------------------------------------------------------------------------
(* Operations on a live handle *)

\* `let mut buffer = [0_u8; 256]` after read_bulk stored rx at its start
Buffer(rx) == [i \in 1..BUFFER_SIZE |-> IF i <= Len(rx) THEN rx[i] ELSE 0]

\* the slice read_frame hands to postcard::take_from_bytes: `&buffer`
DecodeInput(rx) == Buffer(rx)

\* read_frame(timeout)
ReadFrame(p, ok, rx) ==
    LET h   == handle[p]
        got == IF ok THEN rx ELSE <<>>
    IN
    /\ h.live
    /\ trace' = <<Xfer("read_bulk", "in", VERSIONS[h.pid].in_ep, <<>>, ok)>>
    /\ \E de \in {DeFrame(DecodeInput(got))} :
         LET res == IF ~ok THEN "RusbError" ELSE IF de.ok THEN "Ok" ELSE "SerdeError"
         IN  call' = [op |-> "read_frame", proc |-> p, result |-> res, ok |-> ok,
                      rx |-> got, frame |-> IF res = "Ok" THEN de.frame ELSE ZeroFrame,
                      before |-> h]
    /\ UNCHANGED <<bus, claimed, handle>>

\* write_frame(frame, timeout): the byte count is logged and dropped
WriteFrameResult(ok, written, len) == IF ok THEN "Ok" ELSE "RusbError"

WriteFrame(p, frame, ok, n) ==
    LET h   == handle[p]
        vec == SerFrame(frame)
        written == IF ok THEN n ELSE 0
    IN
    /\ h.live
    /\ trace' = <<Xfer("write_bulk", "out", VERSIONS[h.pid].out_ep, vec, ok)>>
    /\ call' = [op |-> "write_frame", proc |-> p,
                result |-> WriteFrameResult(ok, written, Len(vec)), ok |-> ok,
                frame |-> frame, len |-> Len(vec), written |-> written, before |-> h]
    /\ UNCHANGED <<bus, claimed, handle>>

SettingsRolledBack(before, new, ok) == IF ok THEN new ELSE before

\* modify_settings: `f(&mut self.settings)` changes the cache in place,
\* before write_settings and whatever its result
SettingsAfter(before, new, ok) == new

\* modify_settings(timeout, f)
ModifySettings(p, f, ok) ==
    LET h  == handle[p]
        h2 == [h EXCEPT !.settings = SettingsAfter(h.settings, f[h.settings], ok)]
    IN
    /\ h.live
    /\ handle' = [handle EXCEPT ![p] = h2]
    /\ trace' = <<SettingsXfer(h2.settings, ok)>>
    /\ call' = [op |-> "modify_settings", proc |-> p, result |-> ControlResult(ok),
                ok |-> ok, f |-> f, before |-> h]
    /\ UNCHANGED <<bus, claimed>>

\* set_settings(settings, timeout)
SetSettings(p, settings, ok) ==
    LET h  == handle[p]
        f  == [s \in SettingsSet |-> settings]
        h2 == [h EXCEPT !.settings = SettingsAfter(h.settings, f[h.settings], ok)]
    IN
    /\ h.live
    /\ handle' = [handle EXCEPT ![p] = h2]
    /\ trace' = <<SettingsXfer(h2.settings, ok)>>
    /\ call' = [op |-> "set_settings", proc |-> p, result |-> ControlResult(ok),
                ok |-> ok, settings |-> settings, before |-> h]
    /\ UNCHANGED <<bus, claimed>>

\* write_running: `self.running = running;` precedes the transfer
RunningAfter(before, running, ok) == running

\* write_running: the control transfer it issues
RunXfer(running, ok) ==
    Control("write_control", RequestType("out", "vendor", "device"),
            REQ_Run, <<BoolByte(running)>>, ok)

WriteRunning(p, name, running, ok) ==
    LET h == handle[p]
    IN
    /\ h.live
    /\ handle' = [handle EXCEPT ![p] = [h EXCEPT !.running = RunningAfter(h.running, running, ok)]]
    /\ trace' = <<RunXfer(running, ok)>>
    /\ call' = [op |-> name, proc |-> p, result |-> ControlResult(ok), ok |-> ok,
                running |-> running, before |-> h]
    /\ UNCHANGED <<bus, claimed>>

\* start(timeout)
Start(p, ok) == WriteRunning(p, "start", TRUE, ok)

\* stop(timeout)
Stop(p, ok) == WriteRunning(p, "stop", FALSE, ok)

ResetXferLedEnable(ok) ==
    Control("write_control", RequestType("out", "vendor", "device"),
            REQ_LedEnable, <<>>, ok)

\* reset: the control transfer it issues
ResetXfer(ok) ==
    Control("write_control", RequestType("out", "vendor", "device"),
            REQ_Reset, <<>>, ok)

ResetTraceRetried(ok) ==
    IF ok THEN <<ResetXfer(TRUE)>> ELSE <<ResetXfer(FALSE), ResetXfer(TRUE)>>

\* reset: the platform calls it makes
ResetTrace(ok) == <<ResetXfer(ok)>>

\* reset(timeout)
Reset(p, ok) ==
    LET h == handle[p]
    IN
    /\ h.live
    /\ trace' = ResetTrace(ok)
    /\ call' = [op |-> "reset", proc |-> p, result |-> ControlResult(ok), ok |-> ok,
                before |-> h]
    /\ UNCHANGED <<bus, claimed, handle>>

\* get_error: the control transfer it issues
GetErrorXfer(ok) ==
    Control("read_control", RequestType("in", "vendor", "device"),
            REQ_GetError, <<>>, ok)

\* get_error: `let mut buf = [0_u8]` after read_control stored n bytes
ErrorBuf(n, b) == IF n >= 1 THEN <<b>> ELSE <<0>>

\* get_error: `debug_assert!(bytes == 1); Ok(buf[0])`; debug tells whether
\* the build carries debug assertions
GetErrorResult(ok, n, debug) ==
    IF ~ok THEN "RusbError"
    ELSE IF debug /\ n # 1 THEN "Panic"
    ELSE "Ok"

\* get_error(timeout); a failed assertion unwinds and drops the handle
GetError(p, ok, n, b, debug) ==
    LET h   == handle[p]
        res == GetErrorResult(ok, n, debug)
        got == IF ok THEN n ELSE 0
    IN
    /\ h.live
    /\ trace' = <<GetErrorXfer(ok)>>
               \o (IF res = "Panic" THEN <<Plain("release_interface", TRUE)>> ELSE <<>>)
    /\ call' = [op |-> "get_error", proc |-> p, result |-> res, ok |-> ok,
                bytes |-> got, byte |-> b, debug |-> debug,
                value |-> IF res = "Ok" THEN ErrorBuf(got, b)[1] ELSE 0,
                before |-> h]
    /\ IF res = "Panic"
       THEN /\ handle' = [handle EXCEPT ![p] = NoHandle]
            /\ claimed' = DropAdaptorHandle(claimed, p)
       ELSE UNCHANGED <<claimed, handle>>
    /\ UNCHANGED bus

\* write: `padded_cmd[..cmd.len()].copy_from_slice(cmd)` over [0_u8; CMD_PACKET_SIZE]
PaddedCmd(cmd) == [i \in 1..CMD_PACKET_SIZE |-> IF i <= Len(cmd) THEN cmd[i] ELSE 0]

\* write: the result after write_bulk
WriteResult(ok, written) ==
    IF ~ok THEN "RusbError"
    ELSE IF written # CMD_PACKET_SIZE THEN "SettingsError"
    ELSE "Ok"

\* write(cmd, timeout) of the crate root: the command header
Write(p, cmd, ok, n) ==
    LET h == handle[p]
        written == IF ok THEN n ELSE 0
    IN
    /\ h.live
    /\ Len(cmd) <= CMD_PACKET_SIZE
    /\ trace' = <<Xfer("write_bulk", "out", OUT_ENDPOINT, PaddedCmd(cmd), ok)>>
    /\ call' = [op |-> "write", proc |-> p, result |-> WriteResult(ok, written),
                ok |-> ok, cmd |-> cmd, written |-> written, before |-> h]
    /\ UNCHANGED <<bus, claimed, handle>>

----------------------------------------------------------------------------

NoCall == [op |-> "none", proc |-> 0, result |-> "Ok"]

Init ==
    /\ bus \in BusLists
    /\ claimed = 0
    /\ handle = [p \in Procs |-> NoHandle]
    /\ call = NoCall
    /\ trace = <<>>

Main == CHOOSE p \in Procs : \A q \in Procs : p <= q

NextOpen ==
    \/ \E s \in SettingsSet, env \in NewEnv : New(Main, s, env)
    \/ DropHandle(Main)

\* Opening and dropping, over every enumeration the platform may report.
SpecOpen == Init /\ [][NextOpen]_vars

\* One adaptor attached.
InitAttached ==
    /\ bus = <<Adaptor>>
    /\ claimed = 0
    /\ handle = [p \in Procs |-> NoHandle]
    /\ call = NoCall
    /\ trace = <<>>

Next ==
    \/ \E s \in SettingsSet, env \in NewEnv : New(Main, s, env)
    \/ DropHandle(Main)
    \/ \E rx \in RxInputs : ReadFrame(Main, TRUE, rx)
    \/ ReadFrame(Main, FALSE, <<>>)
    \/ \E f \in TestFrames :
          \E n \in {0, Len(SerFrame(f)) - 1, Len(SerFrame(f))} : WriteFrame(Main, f, TRUE, n)
    \/ \E f \in TestFrames : WriteFrame(Main, f, FALSE, 0)
    \/ \E f \in Closures, ok \in BOOLEAN : ModifySettings(Main, f, ok)
    \/ \E s \in SettingsSet, ok \in BOOLEAN : SetSettings(Main, s, ok)
    \/ \E ok \in BOOLEAN : Start(Main, ok)
    \/ \E ok \in BOOLEAN : Stop(Main, ok)
    \/ \E cmd \in Cmds, n \in {0, CMD_PACKET_SIZE - 1, CMD_PACKET_SIZE} :
          Write(Main, cmd, TRUE, n)
    \/ \E cmd \in Cmds : Write(Main, cmd, FALSE, 0)
    \/ \E ok \in BOOLEAN : Reset(Main, ok)
    \/ \E n \in {0, 1}, b \in ErrorBytes, debug \in BOOLEAN : GetError(Main, TRUE, n, b, debug)
    \/ \E debug \in BOOLEAN : GetError(Main, FALSE, 0, 0, debug)

\* Every operation of one process, with one adaptor attached.
Spec == InitAttached /\ [][Next]_vars

\* A frame written in full and read back: the bytes write_frame put on the
\* OUT endpoint are what the next bulk IN transfer delivers.
NextCodec ==
    \/ \E s \in SettingsSet, c \in UsableConfigs :
          New(Main, s, [failAt |-> "none", cfg |-> c])
    \/ \E f \in CodecFrames : WriteFrame(Main, f, TRUE, Len(SerFrame(f)))
    \/ /\ call.op = "write_frame"
       /\ ReadFrame(Main, TRUE, trace[1].data)

SpecCodec == InitAttached /\ [][NextCodec]_vars

NextExcl ==
    \/ \E p \in Procs, s \in SettingsSet, env \in NewEnv : New(p, s, env)
    \/ \E p \in Procs : DropHandle(p)

\* Several processes opening and dropping against the one attached adaptor.
SpecExcl == InitAttached /\ [][NextExcl]_vars

----------------------------------------------------------------------------
(* Properties *)

LastCallIs(o) == call.op = o

ClaimSucceeded ==
    \E i \in DOMAIN trace : trace[i].call = "claim_interface" /\ trace[i].ok

SettingsPushFailed ==
    \E i \in DOMAIN trace :
        trace[i].call = "write_control" /\ trace[i].req = REQ_Settings /\ ~trace[i].ok

\* address a is an endpoint of the first interface's first alternate setting
Present(cfg, a) == Len(cfg) > 0 /\ Len(cfg[1]) > 0 /\ a \in cfg[1][1]

Qualifies(d) == d.readable /\ d.vid = VENDOR_ID /\ d.pid \in DOMAIN VERSIONS

\* C1: whenever new returns an error after claim_interface(0) succeeded
\* (a missing IN or OUT endpoint, or a failed initial settings transfer),
\* the caller's process no longer holds the claim on interface 0.
C1_ReleasedOnFailedOpen ==
    (LastCallIs("new") /\ call.result # "Ok" /\ ClaimSucceeded)
        => claimed # call.proc /\ claimed = 0

C1_Witness ==
    /\ LastCallIs("new")
    /\ call.result = "NoEndpointError"
    /\ ClaimSucceeded
    /\ claimed = 0

\* C2: a successful new(initial_settings) sends initial_settings in its
\* Settings control transfer and caches initial_settings in the handle.
C2_InitialSettingsPushed ==
    (LastCallIs("new") /\ call.result = "Ok")
        => /\ handle[call.proc].settings = call.settings
           /\ trace[Len(trace)].call = "write_control"
           /\ trace[Len(trace)].req = REQ_Settings
           /\ trace[Len(trace)].data = SerSettings(call.settings)

\* C3: after start or stop the running flag holds the requested value when
\* the Run transfer succeeded and its value from before the call otherwise.
C3_RunningOnlyAfterSuccess ==
    (LastCallIs("start") \/ LastCallIs("stop"))
        => handle[call.proc].running =
               IF call.result = "Ok" THEN call.running ELSE call.before.running

\* C4: whenever the bulk OUT write reports fewer bytes than the encoded
\* frame holds, write_frame does not return Ok.
C4_ShortWriteIsError ==
    (LastCallIs("write_frame") /\ call.ok /\ call.written < call.len)
        => call.result # "Ok"

\* C5: whenever the bytes the bulk IN transfer delivered do not decode to a
\* whole frame (malformed, truncated, or none at all), read_frame returns a
\* serialization error.
C5_DecodesReceivedPrefixOnly ==
    (LastCallIs("read_frame") /\ call.ok /\ ~DeFrame(call.rx).ok)
        => call.result = "SerdeError"

\* C6: read_frame never returns a frame whose dlc exceeds 8.
C6_NoFrameAboveDlc8 ==
    (LastCallIs("read_frame") /\ call.result = "Ok") => call.frame.dlc <= 8

\* C7: once the interface is claimed, new fails with NoEndpointError exactly
\* when the IN or the OUT endpoint of the registry entry is absent from the
\* first interface's first alternate setting, and then leaves no handle; a
\* handle is returned only with both present.
C7_EndpointValidation ==
    LastCallIs("new") =>
        /\ call.result = "NoEndpointError" => ClaimSucceeded
        /\ ClaimSucceeded =>
             LET info == VERSIONS[bus[call.sel].pid]
                 both == Present(call.cfg, info.in_ep) /\ Present(call.cfg, info.out_ep)
             IN  /\ call.result = "NoEndpointError" <=> ~both
                 /\ call.result = "Ok" => both
                 /\ ~both => ~handle[call.proc].live

C7_Witness ==
    /\ LastCallIs("new")
    /\ ClaimSucceeded
    /\ call.result = "NoEndpointError"
    /\ Present(call.cfg, V1_IN_EP)
    /\ ~Present(call.cfg, V1_OUT_EP)
    /\ ~handle[call.proc].live

\* C8: when the Settings control transfer of new fails, new returns that
\* error and leaves no handle; a returned handle's settings are the payload
\* of a Settings transfer that succeeded, the last call of the open.
C8_FailedPushFailsOpen ==
    LastCallIs("new") =>
        /\ SettingsPushFailed =>
             call.result = "RusbError" /\ ~handle[call.proc].live
        /\ call.result = "Ok" =>
             /\ handle[call.proc].live
             /\ trace[Len(trace)] = SettingsXfer(handle[call.proc].settings, TRUE)

C8_Witness ==
    /\ LastCallIs("new")
    /\ SettingsPushFailed
    /\ call.result = "RusbError"
    /\ ~handle[call.proc].live

\* C9: the device new selects has vendor id VENDOR_ID and a product id of
\* the registry, and so has the device behind every returned handle.
C9_VendorAlwaysMatches ==
    LastCallIs("new") =>
        /\ call.sel # 0 =>
             bus[call.sel].vid = VENDOR_ID /\ bus[call.sel].pid \in DOMAIN VERSIONS
        /\ call.result = "Ok" =>
             call.sel # 0 /\ handle[call.proc].pid = bus[call.sel].pid

C9_Witness ==
    /\ LastCallIs("new")
    /\ call.result = "Ok"
    /\ call.sel = 2
    /\ bus[1].readable
    /\ bus[1].vid # VENDOR_ID
    /\ bus[1].pid \in DOMAIN VERSIONS

\* C10: new selects the first device in enumeration order whose descriptor
\* is readable, whose vendor id is VENDOR_ID and whose product id is in the
\* registry; with no such device it fails with NoDeviceError.
C10_FirstWins ==
    LastCallIs("new") =>
        LET q == { i \in 1..Len(bus) : Qualifies(bus[i]) }
        IN  IF q = {}
            THEN call.result = "NoDeviceError" /\ call.sel = 0
            ELSE /\ call.sel \in q
                 /\ \A j \in q : call.sel <= j
                 /\ call.result # "NoDeviceError"

C10_Witness ==
    /\ LastCallIs("new")
    /\ Len(bus) = 3
    /\ ~bus[1].readable
    /\ Qualifies(bus[2])
    /\ Qualifies(bus[3])
    /\ call.sel = 2
    /\ call.result = "Ok"

\* C11: when modify_settings or set_settings has applied its change and the
\* Settings control transfer fails, the call returns the error and the
\* handle caches the changed settings, not the ones from before the call.
C11_FailedSyncKeepsMutation ==
    /\ (LastCallIs("modify_settings") /\ ~call.ok)
          => /\ call.result = "RusbError"
             /\ handle[call.proc].settings = call.f[call.before.settings]
    /\ (LastCallIs("set_settings") /\ ~call.ok)
          => /\ call.result = "RusbError"
             /\ handle[call.proc].settings = call.settings

C11_Witness ==
    /\ LastCallIs("modify_settings")
    /\ ~call.ok
    /\ call.result = "RusbError"
    /\ call.f[call.before.settings] # call.before.settings
    /\ handle[call.proc].settings = call.f[call.before.settings]

\* C12: the bulk OUT transfer with which write_frame sends the serialized
\* frame is immediately preceded, in the same call, by a separate bulk OUT
\* transfer of CMD_PACKET_SIZE bytes, the command header.
C12_HeaderPrecedesFrame ==
    LastCallIs("write_frame") =>
        /\ Len(trace) >= 2
        /\ trace[Len(trace)].call = "write_bulk"
        /\ trace[Len(trace)].data = SerFrame(call.frame)
        /\ trace[Len(trace) - 1].call = "write_bulk"
        /\ trace[Len(trace) - 1].dir = "out"
        /\ Len(trace[Len(trace) - 1].data) = CMD_PACKET_SIZE

\* C13: the header write sends, in one bulk OUT transfer, CMD_PACKET_SIZE
\* bytes that start with the command and are zero after it; when the
\* platform reports a byte count other than CMD_PACKET_SIZE the write
\* returns a transport error, and it never issues a second transfer.
C13_HeaderFraming ==
    LastCallIs("write") =>
        /\ Len(trace) = 1
        /\ trace[1].call = "write_bulk"
        /\ Len(trace[1].data) = CMD_PACKET_SIZE
        /\ \A i \in 1..CMD_PACKET_SIZE :
             trace[1].data[i] = IF i <= Len(call.cmd) THEN call.cmd[i] ELSE 0
        /\ (call.ok /\ call.written # CMD_PACKET_SIZE)
             => call.result \in {"RusbError", "NotEnoughBytesSent"}
        /\ (call.ok /\ call.written = CMD_PACKET_SIZE) => call.result = "Ok"

\* C14: whenever the GetError control transfer succeeds it reported exactly
\* one byte, and get_error returns Ok with that byte, unmodified.
C14_GetErrorReturnsDeviceByte ==
    (LastCallIs("get_error") /\ call.ok)
        => /\ call.bytes = 1
           /\ call.result = "Ok"
           /\ call.value = call.byte

\* C15: a valid frame (dlc 0..8, any id, data and flags) serialized as
\* write_frame serializes it and decoded as read_frame decodes the received
\* bytes comes back equal to the original.
C15_RoundTrip ==
    [][(/\ call.op = "write_frame"
        /\ call.frame.dlc \in 0..8
        /\ call'.op = "read_frame"
        /\ call'.rx = trace[1].data)
          => /\ call'.result = "Ok"
             /\ call'.frame = call.frame]_vars

C15_Witness ==
    /\ LastCallIs("read_frame")
    /\ call.result = "Ok"
    /\ call.rx = SerFrame(call.frame)
    /\ call.frame.id = 2147483647
    /\ call.frame.dlc = 3
    /\ call.frame.data = TestData
    /\ call.frame.is_rtr /\ ~call.frame.is_err /\ call.frame.is_ext

IsControl(x) == x.call \in {"write_control", "read_control"}

\* C16: every control transfer the handle issues is vendor-class and
\* device-recipient with request code Settings, Run, Reset or GetError;
\* Settings, Run and Reset go host-to-device, GetError device-to-host, and
\* request code NOP is never issued.
C16_ControlDiscipline ==
    \A i \in 1..Len(trace) :
        IsControl(trace[i]) =>
            /\ trace[i].class = "vendor"
            /\ trace[i].recipient = "device"
            /\ trace[i].req \in {REQ_Settings, REQ_Run, REQ_Reset, REQ_GetError}
            /\ trace[i].req # REQ_NOP
            /\ trace[i].req \in {REQ_Settings, REQ_Run, REQ_Reset}
                  => (trace[i].dir = "out" /\ trace[i].call = "write_control")
            /\ trace[i].req = REQ_GetError
                  => (trace[i].dir = "in" /\ trace[i].call = "read_control")

C16_Witness ==
    /\ LastCallIs("reset")
    /\ Len(trace) = 1
    /\ IsControl(trace[1])
    /\ trace[1].req = REQ_Reset
    /\ trace[1].ok

IsTransfer(x) == x.call \in {"read_bulk", "write_bulk", "write_control", "read_control"}

Transfers == { i \in 1..Len(trace) : IsTransfer(trace[i]) }

\* C17: a call of read_frame, write_frame, set_settings, modify_settings,
\* start, stop, reset or get_error issues at most one USB transfer, and when
\* that transfer fails the call returns the transport error without issuing
\* another transfer.
C17_NoRetries ==
    call.op \in {"read_frame", "write_frame", "set_settings", "modify_settings",
                 "start", "stop", "reset", "get_error"}
        => /\ Cardinality(Transfers) <= 1
           /\ \A i \in Transfers :
                 ~trace[i].ok => /\ call.result = "RusbError"
                                 /\ \A j \in Transfers : j <= i

C17_Witness ==
    /\ LastCallIs("reset")
    /\ Cardinality(Transfers) = 1
    /\ ~trace[1].ok
    /\ call.result = "RusbError"

LiveProcs == { p \in Procs : handle[p].live }

\* C18: with several processes opening and dropping against one device, at
\* most one live handle holds the claim on interface 0; an open attempted
\* while another process's handle holds the claim fails with a transport
\* error and returns no handle; once the holder is dropped the interface is
\* free for a later open, and a successful open holds the claim.
C18_ExclusiveOwnership ==
    /\ Cardinality(LiveProcs) <= 1
    /\ \A p \in Procs : handle[p].live => claimed = p
    /\ (LastCallIs("new") /\ \E q \in LiveProcs : q # call.proc)
          => /\ call.result = "RusbError"
             /\ ~handle[call.proc].live
    /\ LastCallIs("drop") => claimed = 0
    /\ (LastCallIs("new") /\ call.result = "Ok")
          => (claimed = call.proc /\ handle[call.proc].live)

C18_Witness ==
    /\ LastCallIs("new")
    /\ call.proc # Main
    /\ handle[Main].live
    /\ claimed = Main
    /\ call.result = "RusbError"
    /\ trace[Len(trace)] = Plain("claim_interface", FALSE)
    /\ ~handle[call.proc].live

StepIndex(c) == { i \in 1..Len(trace) : trace[i].call = c }

\* every call of b in the trace comes after a successful call of a
Before(a, b) ==
    \A i \in StepIndex(b) : \E j \in StepIndex(a) : j < i /\ trace[j].ok

\* The part of the open's ordering that does not concern the configuration
\* descriptor: endpoints are validated after the claim, the Settings
\* transfer follows the claim and needs both endpoints, and an open failing
\* with NoDeviceError or NoEndpointError has sent no transfer.
OpenOrderCommon ==
    /\ Before("open", "claim_interface")
    /\ call.result = "NoEndpointError" => ClaimSucceeded
    /\ Before("claim_interface", "write_control")
    /\ StepIndex("write_control") # {}
          => LET info == VERSIONS[bus[call.sel].pid]
             IN  Present(call.cfg, info.in_ep) /\ Present(call.cfg, info.out_ep)
    /\ call.result \in {"NoDeviceError", "NoEndpointError"} => Transfers = {}

\* C19 as stated: in new each step is a precondition for the next, the
\* interface is claimed before the configuration descriptor is read and
\* before endpoints are validated, the Settings transfer is issued only
\* after the claim and with both endpoints found, and an open failing with
\* NoDeviceError or NoEndpointError has sent no control or bulk transfer.
C19_ClaimBeforeConfigRead ==
    LastCallIs("new") =>
        /\ Before("claim_interface", "active_config_descriptor")
        /\ OpenOrderCommon

\* C19: in new each step is a precondition for the next in the order open,
\* read the active configuration descriptor, read the device descriptor,
\* claim interface 0, validate endpoints, send Settings: the configuration
\* descriptor is read before the claim is attempted, endpoints are
\* validated after it, the Settings transfer is issued only after the claim
\* and with both endpoints found, and an open failing with NoDeviceError or
\* NoEndpointError has sent no control or bulk transfer.
C19_OpenStepOrder ==
    LastCallIs("new") =>
        /\ Before("open", "active_config_descriptor")
        /\ Before("active_config_descriptor", "device_descriptor")
        /\ Before("device_descriptor", "claim_interface")
        /\ \A i \in StepIndex("active_config_descriptor"), j \in StepIndex("claim_interface") :
              i < j
        /\ OpenOrderCommon

C19_Witness ==
    /\ LastCallIs("new")
    /\ call.result = "Ok"
    /\ Len(trace) = 5
    /\ trace[2] = Plain("active_config_descriptor", TRUE)
    /\ trace[4] = Plain("claim_interface", TRUE)
    /\ trace[5].call = "write_control"
    /\ trace[5].req = REQ_Settings

\* a step of process p that starts and ends with a live handle
FrameStep(p) ==
    /\ handle'[p].settings # handle[p].settings
          => /\ call'.op \in {"set_settings", "modify_settings"}
             /\ \E i \in 1..Len(trace') :
                   /\ trace'[i].call = "write_control"
                   /\ trace'[i].req = REQ_Settings
                   /\ trace'[i].data = SerSettings(handle'[p].settings)
    /\ handle'[p].running # handle[p].running => call'.op \in {"start", "stop"}
    /\ call'.op \in {"read_frame", "write_frame", "reset", "get_error"}
          => /\ handle'[p].settings = handle[p].settings
             /\ handle'[p].running = handle[p].running

\* C20: the cached settings change only in set_settings/modify_settings,
\* and the same call then issues a Settings control transfer carrying the
\* changed value; the running flag is false in a freshly opened handle and
\* changes only in start/stop; read_frame, write_frame, reset and get_error
\* leave both unchanged, whether they succeed or fail.
C20_FrameConditions ==
    [][\A p \in Procs :
         /\ (handle[p].live /\ handle'[p].live) => FrameStep(p)
         /\ (~handle[p].live /\ handle'[p].live)
               => (call'.op = "new" /\ ~handle'[p].running)]_vars

C20_Witness ==
    /\ LastCallIs("reset")
    /\ ~call.ok
    /\ handle[Main].live
    /\ handle[Main] = call.before
    /\ handle[Main].settings # DefaultSettings
    /\ handle[Main].running

====
